---- MODULE Spec2Model ----
(***************************************************************************)
(* Model of PfitzRunClassifier (enhanced_run_classifier.py): the ordered   *)
(* rule cascade that labels one run record, the batch operations and the   *)
(* summary; and of the scripts around it: fetch_activities.py, which       *)
(* writes running_data.csv, analyze_your_runs, which classifies it into    *)
(* classified_running_data.csv, and load_running_data of the dashboards.   *)
(*                                                                         *)
(* Units.  The source works on floats; every quantity is scaled to an      *)
(* integer so that the source's comparisons are exact:                     *)
(*   paces        thousandths of a min/km  (4.0 -> 4000, 0.083 -> 83)      *)
(*   distance_km  hundredths of a km       (8.0 -> 800)                    *)
(*   duration_min tenths of a minute       (60  -> 600)                    *)
(*   heart rates  beats per minute                                         *)
(* A heart-rate percentage hr / max_hr * 100 is kept as the fraction       *)
(* (hr * 100) / max_hr and compared by cross-multiplication.               *)
(*                                                                         *)
(* A field of a row is a record [kind, val]:                               *)
(*   "missing"  the row has no such key (row.get returns its default)      *)
(*   "nan"      the key is there with a NaN (an empty CSV cell)            *)
(*   "none"     Python None (the default of row.get for the paces)         *)
(*   "num"      a number, val                                              *)
(***************************************************************************)
EXTENDS Integers, Sequences, FiniteSets, TLC

VARIABLES
    max_hr,               \* self.max_hr
    known_pb_5k_pace,     \* self.known_pb_5k_pace
    known_pb_10k_pace,    \* self.known_pb_10k_pace
    tracked_pb_5k_pace,   \* self.tracked_pb_5k_pace
    tracked_pb_10k_pace,  \* self.tracked_pb_10k_pace
    row,                  \* the record handed to classify_run
    run_type,             \* what the last classify_run call returned
    prev_type,            \* what the call before it returned
    pc,                   \* position of the caller
    numeric,              \* the numbers a row carries: "python" floats (a
                          \* dict, a row of a frame with text columns) or
                          \* "numpy" scalars (a row of an all-numeric frame)
    frames,               \* the data frames: "caller" is the frame the
                          \* caller passes, "local" the one df.copy() makes
    df,                   \* the frame the local name df is bound to
    applied,              \* the labels df.apply has produced so far
    derivations,          \* calculate_personal_bests calls of the current
                          \* classify_dataframe run
    op,                   \* the method the caller called last
    prev_tracked,         \* the tracked paces before that call
    repeat,               \* that call repeated the call before it
    seen,                 \* <<activity_id, run, label>> of every record
                          \* classified so far
    snapshot,             \* the caller's frame as it was when passed
    error,                \* the exception the last call raised, "" if none
    runs,                 \* number of calls so far
    summary,              \* the summary of get_classification_summary
    running_csv,          \* the file running_data.csv
    classified_csv,       \* the file classified_running_data.csv
    fetched,              \* the runs main hands to create_running_dataframe,
                          \* each with the response its detail request gets
    enhanced_data,        \* the rows create_running_dataframe has built
    run_index,            \* the runs its loop has dealt with
    phase,                \* position of analyze_your_runs
    total_runs,           \* total_runs of analyze_your_runs
    returned,             \* what main / analyze_your_runs returned
    loaded                \* what load_running_data returned

batch_vars == <<frames, df, applied, derivations, op, prev_tracked, repeat,
                seen, snapshot, error, runs, summary>>

pipeline_vars == <<running_csv, classified_csv, fetched, enhanced_data,
                   run_index, phase, total_runs, returned, loaded>>

vars == <<max_hr, known_pb_5k_pace, known_pb_10k_pace, tracked_pb_5k_pace,
          tracked_pb_10k_pace, row, run_type, prev_type, pc, numeric,
          batch_vars, pipeline_vars>>

\* the fields of the classifier object
registry == <<max_hr, known_pb_5k_pace, known_pb_10k_pace,
              tracked_pb_5k_pace, tracked_pb_10k_pace>>

----------------------------------------------------------------------------
(* Values of a field *)

Missing == [kind |-> "missing", val |-> 0]
NaN     == [kind |-> "nan", val |-> 0]
None    == [kind |-> "none", val |-> 0]
Num(n)  == [kind |-> "num", val |-> n]

\* row.get(key, default): the default when the row has no such key
RowGet(r, key, default) == IF r[key].kind = "missing" THEN default ELSE r[key]

\* Python truthiness of a value used as a condition: None and 0 are false,
\* NaN and every other number are true
Truthy(v) == v.kind = "nan" \/ (v.kind = "num" /\ v.val # 0)

\* v <= n and v > 0 on floats: every comparison with NaN is false
NumLe(v, n) == v.kind = "num" /\ v.val <= n
NumGt0(v)   == v.kind = "num" /\ v.val > 0

----------------------------------------------------------------------------
(* Constants of the source *)

Known5kPace  == 4000
Known10kPace == 4200
DefaultMaxHr == 191

RaceTolerance      == 170
Vo2Tolerance       == 83
ThresholdTolerance == 420

Vo2HrPct       == 95
ThresholdHrPct == 85
RecoveryHrPct  == 70
AerobicHrPct   == 81

RecoveryMaxKm    == 800
EnduranceMinKm   == 1200
AerobicMinKm     == 300
EnduranceMinMin  == 600
AerobicMinMin    == 150

Labels == {"Race", "VO2 Max Intervals", "Lactate Threshold", "Recovery",
           "Endurance", "General Aerobic", "Other"}

NoLabel == "(not called)"

----------------------------------------------------------------------------
(* Heart-rate percentages: (hr / self.max_hr * 100) if hr > 0 else 0      *)
(* A percentage is a fraction num / den (kind "num"), +infinity (kind      *)
(* "inf": a numpy scalar divided by 0), or the exception the expression    *)
(* raised: None > 0 is a TypeError, a Python number divided by 0 a         *)
(* ZeroDivisionError.                                                      *)

PctNum(n, d)  == [kind |-> "num", num |-> n, den |-> d]
PctInf        == [kind |-> "inf", num |-> 0, den |-> 1]
PctRaise(exc) == [kind |-> exc, num |-> 0, den |-> 1]

Raised(p) == p.kind \in {"TypeError", "ZeroDivisionError"}

HrPct(hr) ==
    IF hr.kind = "none" THEN PctRaise("TypeError")
    ELSE IF NumGt0(hr)
         THEN IF max_hr = 0
              THEN IF numeric = "numpy" THEN PctInf
                   ELSE PctRaise("ZeroDivisionError")
              ELSE PctNum(hr.val * 100, max_hr)
    ELSE PctNum(0, 1)

PctGe(p, t) == p.kind = "inf" \/ (p.kind = "num" /\ p.num >= t * p.den)
PctLe(p, t) == p.kind = "num" /\ p.num <= t * p.den
PctLt(p, t) == p.kind = "num" /\ p.num < t * p.den
PctGt(p, t) == p.kind = "inf" \/ (p.kind = "num" /\ p.num > t * p.den)

----------------------------------------------------------------------------
(* The rules *)

\* v < n and v >= n on floats
NumLt(v, n) == v.kind = "num" /\ v.val < n
NumGe(v, n) == v.kind = "num" /\ v.val >= n

\* variant: the tolerance bound taken as exclusive
_is_race_Strict(pace_5k, pace_10k) ==
    \/ Truthy(pace_5k) /\ known_pb_5k_pace # 0
         /\ NumLt(pace_5k, known_pb_5k_pace + RaceTolerance)
    \/ Truthy(pace_10k) /\ known_pb_10k_pace # 0
         /\ NumLt(pace_10k, known_pb_10k_pace + RaceTolerance)

\* variant: the comparison turned around
_is_race_Ge(pace_5k, pace_10k) ==
    \/ Truthy(pace_5k) /\ known_pb_5k_pace # 0
         /\ NumGe(pace_5k, known_pb_5k_pace + RaceTolerance)
    \/ Truthy(pace_10k) /\ known_pb_10k_pace # 0
         /\ NumGe(pace_10k, known_pb_10k_pace + RaceTolerance)

\* variant: the paces tracked from the batch used for the known ones
_is_race_Tracked(pace_5k, pace_10k) ==
    \/ Truthy(pace_5k) /\ Truthy(tracked_pb_5k_pace)
         /\ NumLe(pace_5k, tracked_pb_5k_pace.val + RaceTolerance)
    \/ Truthy(pace_10k) /\ Truthy(tracked_pb_10k_pace)
         /\ NumLe(pace_10k, tracked_pb_10k_pace.val + RaceTolerance)

_is_race(pace_5k, pace_10k) ==
    \/ Truthy(pace_5k) /\ known_pb_5k_pace # 0
         /\ NumLe(pace_5k, known_pb_5k_pace + RaceTolerance)
    \/ Truthy(pace_10k) /\ known_pb_10k_pace # 0
         /\ NumLe(pace_10k, known_pb_10k_pace + RaceTolerance)

\* variant: both conditions required
_is_vo2_max_intervals_And(pace_1k, max_hr_pct) ==
    /\ PctGe(max_hr_pct, Vo2HrPct)
    /\ Truthy(pace_1k) /\ known_pb_5k_pace # 0
         /\ NumLe(pace_1k, known_pb_5k_pace + Vo2Tolerance)

\* variant: the heart-rate branch left out
_is_vo2_max_intervals_PaceOnly(pace_1k, max_hr_pct) ==
    Truthy(pace_1k) /\ known_pb_5k_pace # 0
         /\ NumLe(pace_1k, known_pb_5k_pace + Vo2Tolerance)

_is_vo2_max_intervals(pace_1k, max_hr_pct) ==
    \/ PctGe(max_hr_pct, Vo2HrPct)
    \/ Truthy(pace_1k) /\ known_pb_5k_pace # 0
         /\ NumLe(pace_1k, known_pb_5k_pace + Vo2Tolerance)

\* variant: either condition enough
_is_lactate_threshold_Or(pace_2_mile, max_hr_pct) ==
    \/ PctGe(max_hr_pct, ThresholdHrPct)
    \/ /\ Truthy(pace_2_mile)
       /\ known_pb_10k_pace # 0
       /\ NumLe(pace_2_mile, known_pb_10k_pace + ThresholdTolerance)

_is_lactate_threshold(pace_2_mile, max_hr_pct) ==
    /\ PctGe(max_hr_pct, ThresholdHrPct)
    /\ Truthy(pace_2_mile)
    /\ known_pb_10k_pace # 0
    /\ NumLe(pace_2_mile, known_pb_10k_pace + ThresholdTolerance)

\* variant: without the avg_hr_pct > 0 guard
_is_recovery_run_NoHrGuard(distance_km, avg_hr_pct) ==
    /\ distance_km <= RecoveryMaxKm
    /\ PctLt(avg_hr_pct, RecoveryHrPct)

_is_recovery_run(distance_km, avg_hr_pct) ==
    /\ distance_km <= RecoveryMaxKm
    /\ PctLt(avg_hr_pct, RecoveryHrPct)
    /\ PctGt(avg_hr_pct, 0)

\* variant: the distance bound taken as exclusive
_is_endurance_run_StrictKm(distance_km, duration_min) ==
    distance_km > EnduranceMinKm /\ duration_min >= EnduranceMinMin

_is_endurance_run(distance_km, duration_min) ==
    distance_km >= EnduranceMinKm /\ duration_min >= EnduranceMinMin

\* variant: without the lower heart-rate bound
_is_general_aerobic_NoHrFloor(distance_km, avg_hr_pct, duration_min) ==
    /\ distance_km >= AerobicMinKm
    /\ distance_km < EnduranceMinKm
    /\ duration_min >= AerobicMinMin
    /\ PctLe(avg_hr_pct, AerobicHrPct)

\* variant: the upper distance bound taken as inclusive
_is_general_aerobic_InclusiveKm(distance_km, avg_hr_pct, duration_min) ==
    /\ distance_km >= AerobicMinKm
    /\ distance_km <= EnduranceMinKm
    /\ duration_min >= AerobicMinMin
    /\ PctGe(avg_hr_pct, RecoveryHrPct)
    /\ PctLe(avg_hr_pct, AerobicHrPct)

_is_general_aerobic(distance_km, avg_hr_pct, duration_min) ==
    /\ distance_km >= AerobicMinKm
    /\ distance_km < EnduranceMinKm
    /\ duration_min >= AerobicMinMin
    /\ PctGe(avg_hr_pct, RecoveryHrPct)
    /\ PctLe(avg_hr_pct, AerobicHrPct)

\* variant: no final return, the call falls off the end
classify_run_NoFallback(r) ==
    LET distance_km  == r.distance_km
        duration_min == r.duration_min
        avg_hr       == RowGet(r, "average_heartrate", Num(0))
        max_hr_run   == RowGet(r, "max_heartrate", Num(0))
        pace_2_mile  == RowGet(r, "pace_2_mile", None)
        pace_1k      == RowGet(r, "pace_1k", None)
        pace_5k      == RowGet(r, "pace_5k", None)
        pace_10k     == RowGet(r, "pace_10k", None)
        avg_hr_pct   == HrPct(avg_hr)
        max_hr_pct   == HrPct(max_hr_run)
    IN  IF Raised(avg_hr_pct) THEN avg_hr_pct.kind
        ELSE IF Raised(max_hr_pct) THEN max_hr_pct.kind
        ELSE IF _is_race(pace_5k, pace_10k) THEN "Race"
        ELSE IF _is_vo2_max_intervals(pace_1k, max_hr_pct)
             THEN "VO2 Max Intervals"
        ELSE IF _is_lactate_threshold(pace_2_mile, max_hr_pct)
             THEN "Lactate Threshold"
        ELSE IF _is_recovery_run(distance_km, avg_hr_pct) THEN "Recovery"
        ELSE IF _is_endurance_run(distance_km, duration_min) THEN "Endurance"
        ELSE IF _is_general_aerobic(distance_km, avg_hr_pct, duration_min)
             THEN "General Aerobic"
        ELSE "None"

\* variant: the Recovery rule tried before the Race rule
classify_run_RecoveryFirst(r) ==
    LET distance_km  == r.distance_km
        duration_min == r.duration_min
        avg_hr       == RowGet(r, "average_heartrate", Num(0))
        max_hr_run   == RowGet(r, "max_heartrate", Num(0))
        pace_2_mile  == RowGet(r, "pace_2_mile", None)
        pace_1k      == RowGet(r, "pace_1k", None)
        pace_5k      == RowGet(r, "pace_5k", None)
        pace_10k     == RowGet(r, "pace_10k", None)
        avg_hr_pct   == HrPct(avg_hr)
        max_hr_pct   == HrPct(max_hr_run)
    IN  IF Raised(avg_hr_pct) THEN avg_hr_pct.kind
        ELSE IF Raised(max_hr_pct) THEN max_hr_pct.kind
        ELSE IF _is_recovery_run(distance_km, avg_hr_pct) THEN "Recovery"
        ELSE IF _is_race(pace_5k, pace_10k) THEN "Race"
        ELSE IF _is_vo2_max_intervals(pace_1k, max_hr_pct)
             THEN "VO2 Max Intervals"
        ELSE IF _is_lactate_threshold(pace_2_mile, max_hr_pct)
             THEN "Lactate Threshold"
        ELSE IF _is_endurance_run(distance_km, duration_min) THEN "Endurance"
        ELSE IF _is_general_aerobic(distance_km, avg_hr_pct, duration_min)
             THEN "General Aerobic"
        ELSE "Other"

\* variant: a run whose overall pace is near the 5 km PB pace is a Race
classify_run_OverallPace(r) ==
    LET distance_km  == r.distance_km
        duration_min == r.duration_min
        pace_min_per_km == r.pace_min_per_km
        avg_hr       == RowGet(r, "average_heartrate", Num(0))
        max_hr_run   == RowGet(r, "max_heartrate", Num(0))
        pace_2_mile  == RowGet(r, "pace_2_mile", None)
        pace_1k      == RowGet(r, "pace_1k", None)
        pace_5k      == RowGet(r, "pace_5k", None)
        pace_10k     == RowGet(r, "pace_10k", None)
        avg_hr_pct   == HrPct(avg_hr)
        max_hr_pct   == HrPct(max_hr_run)
    IN  IF Raised(avg_hr_pct) THEN avg_hr_pct.kind
        ELSE IF Raised(max_hr_pct) THEN max_hr_pct.kind
        ELSE IF \/ _is_race(pace_5k, pace_10k)
                \/ pace_min_per_km <= known_pb_5k_pace + RaceTolerance
             THEN "Race"
        ELSE IF _is_vo2_max_intervals(pace_1k, max_hr_pct)
             THEN "VO2 Max Intervals"
        ELSE IF _is_lactate_threshold(pace_2_mile, max_hr_pct)
             THEN "Lactate Threshold"
        ELSE IF _is_recovery_run(distance_km, avg_hr_pct) THEN "Recovery"
        ELSE IF _is_endurance_run(distance_km, duration_min) THEN "Endurance"
        ELSE IF _is_general_aerobic(distance_km, avg_hr_pct, duration_min)
             THEN "General Aerobic"
        ELSE "Other"

classify_run(r) ==
    LET distance_km  == r.distance_km
        duration_min == r.duration_min
        pace_min_per_km == r.pace_min_per_km   \* read, used by no rule
        avg_hr       == RowGet(r, "average_heartrate", Num(0))
        max_hr_run   == RowGet(r, "max_heartrate", Num(0))
        pace_2_mile  == RowGet(r, "pace_2_mile", None)
        pace_1k      == RowGet(r, "pace_1k", None)
        pace_5k      == RowGet(r, "pace_5k", None)
        pace_10k     == RowGet(r, "pace_10k", None)
        avg_hr_pct   == HrPct(avg_hr)
        max_hr_pct   == HrPct(max_hr_run)
    IN  IF Raised(avg_hr_pct) THEN avg_hr_pct.kind
        ELSE IF Raised(max_hr_pct) THEN max_hr_pct.kind
        ELSE IF _is_race(pace_5k, pace_10k) THEN "Race"
        ELSE IF _is_vo2_max_intervals(pace_1k, max_hr_pct)
             THEN "VO2 Max Intervals"
        ELSE IF _is_lactate_threshold(pace_2_mile, max_hr_pct)
             THEN "Lactate Threshold"
        ELSE IF _is_recovery_run(distance_km, avg_hr_pct) THEN "Recovery"
        ELSE IF _is_endurance_run(distance_km, duration_min) THEN "Endurance"
        ELSE IF _is_general_aerobic(distance_km, avg_hr_pct, duration_min)
             THEN "General Aerobic"
        ELSE "Other"

----------------------------------------------------------------------------
(* round(n / d): the nearest integer, a tie going to the even one.  The   *)
(* source rounds floats, where a tie is decided by the error of the float; *)
(* the inputs below produce no tie.                                        *)

Round(n, d) ==
    LET q == n \div d
        r == n % d
    IN  IF 2 * r < d THEN q
        ELSE IF 2 * r > d THEN q + 1
        ELSE IF q % 2 = 0 THEN q ELSE q + 1

\* round(duration_min / distance_km, 2), in thousandths of a min/km
PaceMinPerKm(duration_min, distance_km) ==
    10 * Round(1000 * duration_min, distance_km)

----------------------------------------------------------------------------
(* Inputs *)

MaxHrValues == {DefaultMaxHr, 200}

DistanceValues == {299, 300, 600, 800, 801, 1199, 1200, 1400}
DurationValues == {149, 150, 300, 599, 600, 700}
AvgHrValues    == {Missing, NaN, Num(0), Num(133), Num(140), Num(162), Num(163)}
MaxHrRunValues == {Missing, NaN, Num(0), Num(169), Num(170), Num(189), Num(190)}
Pace5kValues   == {Missing, NaN, Num(4000), Num(4170), Num(4180)}
Pace10kValues  == {Missing, Num(4370), Num(4380)}
Pace1kValues   == {NaN, Num(4080), Num(4090)}
Pace2MileValues == {Missing, NaN, Num(4620), Num(4630)}

Rows == [distance_km : DistanceValues, duration_min : DurationValues,
         average_heartrate : AvgHrValues, max_heartrate : MaxHrRunValues,
         pace_1k : Pace1kValues, pace_2_mile : Pace2MileValues,
         pace_5k : Pace5kValues, pace_10k : Pace10kValues]

----------------------------------------------------------------------------
(* Data frames.  A frame is [rows, run_type]: the records in index order   *)
(* and the run_type column, <<>> while the frame has no such column.  A    *)
(* column exists for every row of a frame or for none: where some record   *)
(* of the batch has a field, the records without it carry NaN.             *)

OptionalKeys == {"average_heartrate", "max_heartrate", "pace_1k",
                 "pace_2_mile", "pace_5k", "pace_10k"}

\* key in df.columns
HasColumn(rows, key) == \E i \in DOMAIN rows : rows[i][key].kind # "missing"

\* pd.DataFrame(records) / pd.read_csv
DataFrame(records) ==
    [rows |-> [i \in DOMAIN records |->
                 [f \in DOMAIN records[i] |->
                    IF f \in OptionalKeys /\ records[i][f].kind = "missing"
                         /\ HasColumn(records, f)
                    THEN NaN ELSE records[i][f]]],
     run_type |-> <<>>]

EmptyFrame == [rows |-> <<>>, run_type |-> <<>>]

\* the row of a caller that classifies no single row
AnyRow == CHOOSE r \in Rows : TRUE

\* No call in progress, nothing recorded
BatchIdle ==
    /\ frames = [caller |-> EmptyFrame, local |-> EmptyFrame]
    /\ df = "caller"
    /\ applied = <<>>
    /\ derivations = 0
    /\ op = "none"
    /\ prev_tracked = <<None, None>>
    /\ repeat = FALSE
    /\ seen = {}
    /\ snapshot = EmptyFrame
    /\ error = ""
    /\ runs = 0
    /\ summary = <<>>

\* no file on disk
NoFile == [columns |-> {}, rows |-> <<>>, run_type |-> <<>>, exists |-> FALSE]

\* No script has run
ScriptsIdle ==
    /\ fetched = <<>>
    /\ enhanced_data = <<>>
    /\ run_index = 0
    /\ phase = "none"
    /\ total_runs = 0
    /\ returned = ""
    /\ loaded = NoFile

\* No script has run, no file written
PipelineIdle ==
    /\ running_csv = NoFile
    /\ classified_csv = NoFile
    /\ ScriptsIdle

----------------------------------------------------------------------------
(* The classifier after __init__, and a caller holding one row *)

Init ==
    /\ BatchIdle
    /\ PipelineIdle
    /\ max_hr \in MaxHrValues
    /\ known_pb_5k_pace = Known5kPace
    /\ known_pb_10k_pace = Known10kPace
    /\ tracked_pb_5k_pace = None
    /\ tracked_pb_10k_pace = None
    /\ row \in Rows
    /\ run_type = NoLabel
    /\ prev_type = NoLabel
    /\ pc = "start"
    /\ numeric = "python"

\* classifier.classify_run(row)
ClassifyRun ==
    /\ pc = "start"
    /\ run_type' = classify_run(row)
    /\ pc' = "classified"
    /\ UNCHANGED <<registry, row, prev_type, numeric, batch_vars>>
    /\ UNCHANGED pipeline_vars

\* classifier.classify_run on the same row with a faster 5 km best effort
ClassifyFaster5k ==
    /\ pc = "classified"
    /\ row.pace_5k.kind = "num"
    /\ \E p \in Pace5kValues :
         /\ p.kind = "num"
         /\ p.val <= row.pace_5k.val
         /\ row' = [row EXCEPT !.pace_5k = p]
    /\ prev_type' = run_type
    /\ run_type' = classify_run(row')
    /\ pc' = "reclassified"
    /\ UNCHANGED <<registry, numeric, batch_vars>>
    /\ UNCHANGED pipeline_vars

Next == ClassifyRun \/ ClassifyFaster5k

Spec == Init /\ [][Next]_vars

----------------------------------------------------------------------------
(* Batches: calculate_personal_bests, classify_dataframe and               *)
(* get_classification_summary on one classifier, call after call           *)

MaxBatch == 2
MaxRuns  == 2

Activities ==
    { [activity_id |-> 1, distance_km |-> 600, duration_min |-> 300,
       pace_min_per_km |-> PaceMinPerKm(300, 600),
       average_heartrate |-> Missing, max_heartrate |-> Missing,
       pace_1k |-> Missing, pace_2_mile |-> Missing,
       pace_5k |-> Missing, pace_10k |-> Missing],
      [activity_id |-> 2, distance_km |-> 500, duration_min |-> 205,
       pace_min_per_km |-> PaceMinPerKm(205, 500),
       average_heartrate |-> Num(133), max_heartrate |-> Num(170),
       pace_1k |-> Num(4090), pace_2_mile |-> Num(4100),
       pace_5k |-> Num(4100), pace_10k |-> Missing],
      [activity_id |-> 3, distance_km |-> 1000, duration_min |-> 430,
       pace_min_per_km |-> PaceMinPerKm(430, 1000),
       average_heartrate |-> Num(162), max_heartrate |-> Num(180),
       pace_1k |-> Num(3800), pace_2_mile |-> Num(3850),
       pace_5k |-> Num(3900), pace_10k |-> Num(4300)],
      [activity_id |-> 4, distance_km |-> 1400, duration_min |-> 700,
       pace_min_per_km |-> PaceMinPerKm(700, 1400),
       average_heartrate |-> Num(140), max_heartrate |-> Num(160),
       pace_1k |-> Num(4400), pace_2_mile |-> Num(4700),
       pace_5k |-> Num(4500), pace_10k |-> Num(4600)],
      [activity_id |-> 5, distance_km |-> 600, duration_min |-> 300,
       pace_min_per_km |-> PaceMinPerKm(300, 600),
       average_heartrate |-> Num(133), max_heartrate |-> Num(150),
       pace_1k |-> Missing, pace_2_mile |-> Missing,
       pace_5k |-> Missing, pace_10k |-> Missing] }

RECURSIVE SeqsUpTo(_, _)
SeqsUpTo(S, n) ==
    IF n = 0 THEN {<<>>}
    ELSE LET shorter == SeqsUpTo(S, n - 1)
         IN  shorter \cup {Append(q, x) : q \in shorter, x \in S}

Batches == {DataFrame(records) : records \in SeqsUpTo(Activities, MaxBatch)}

SetMin(S) == CHOOSE x \in S : \A y \in S : x <= y
SetMax(S) == CHOOSE x \in S : \A y \in S : x >= y

\* df[key].dropna(), as the set of its values
DropNa(f, key) ==
    {f.rows[i][key].val : i \in {j \in DOMAIN f.rows : f.rows[j][key].kind = "num"}}

\* variant: the slowest effort taken for the best one
calculate_personal_best_Max(f, key, old) ==
    IF HasColumn(f.rows, key)
    THEN IF DropNa(f, key) # {} THEN Num(SetMax(DropNa(f, key))) ELSE old
    ELSE old

\* variant: no check that the column has a value, the result is 0 then
calculate_personal_best_NoLenCheck(f, key, old) ==
    IF HasColumn(f.rows, key) /\ DropNa(f, key) # {}
    THEN Num(SetMin(DropNa(f, key)))
    ELSE Num(0)

\* variant: only the efforts faster than the tracked pace are looked at
calculate_personal_best_NewBestOnly(f, key, old) ==
    LET faster == {v \in DropNa(f, key) : old.kind # "num" \/ v < old.val}
    IN  IF HasColumn(f.rows, key)
        THEN IF faster # {} THEN Num(SetMin(faster)) ELSE NaN
        ELSE old

\* one of the two blocks of calculate_personal_bests: the tracked pace after
\* the call, old being the tracked pace before it
calculate_personal_best(f, key, old) ==
    IF HasColumn(f.rows, key)
    THEN IF DropNa(f, key) # {} THEN Num(SetMin(DropNa(f, key))) ELSE old
    ELSE old

\* f"{v:.2f}"
Format2f(v) == IF v.kind \in {"num", "nan"} THEN "" ELSE "TypeError"

\* print(f"...{t:.2f}..." if t else "... Not available")
print_tracked(t) == IF Truthy(t) THEN Format2f(t) ELSE ""

\* the exception of the print block of calculate_personal_bests, "" if none
print_personal_bests(t5, t10) ==
    IF print_tracked(t5) # "" THEN print_tracked(t5) ELSE print_tracked(t10)

\* variant: df is the caller's frame, not a copy
df_copy_Alias(ref) == ref

\* df.copy(): the frame the copy lives in
df_copy(ref) == "local"

RECURSIVE SeqSum(_)
SeqSum(q) == IF q = <<>> THEN 0 ELSE Head(q) + SeqSum(Tail(q))

\* Series.mean() of a group, rounded to two decimals and kept in hundredths:
\* NaN values are skipped, every number counts (a 0 as well); the mean of no
\* value is NaN.  values[i] is a field record; num / den takes the unit of
\* the values to hundredths.
Mean(values, num, den) ==
    LET nums == SelectSeq(values, LAMBDA v : v.kind = "num")
    IN  IF nums = <<>> THEN NaN
        ELSE Num(Round(num * SeqSum([i \in DOMAIN nums |-> nums[i].val]),
                       den * Len(nums)))

\* the rows of the group of label l, in index order
Group(f, l) ==
    LET G[i \in 0..Len(f.rows)] ==
            IF i = 0 THEN <<>>
            ELSE IF f.run_type[i] = l THEN Append(G[i - 1], f.rows[i])
            ELSE G[i - 1]
    IN  G[Len(f.rows)]

\* variant: an entry for every category, with a count of 0 where the batch
\* has no record of it
Summarise_ZeroCounts(f) ==
    [l \in Labels |->
        LET g == Group(f, l)
        IN  [count |-> Len(g),
             distance_km |-> Mean([i \in DOMAIN g |-> Num(g[i].distance_km)], 1, 1),
             pace_min_per_km |->
                 Mean([i \in DOMAIN g |-> Num(g[i].pace_min_per_km)], 1, 10),
             average_heartrate |->
                 Mean([i \in DOMAIN g |-> g[i].average_heartrate], 100, 1)]]

\* variant: the count taken on the average_heartrate column
Summarise_CountHr(f) ==
    [l \in {f.run_type[i] : i \in DOMAIN f.run_type} |->
        LET g == Group(f, l)
        IN  [count |-> Len(SelectSeq(g, LAMBDA r :
                                          r.average_heartrate.kind = "num")),
             distance_km |-> Mean([i \in DOMAIN g |-> Num(g[i].distance_km)], 1, 1),
             pace_min_per_km |->
                 Mean([i \in DOMAIN g |-> Num(g[i].pace_min_per_km)], 1, 10),
             average_heartrate |->
                 Mean([i \in DOMAIN g |-> g[i].average_heartrate], 100, 1)]]

\* classified_df.groupby('run_type').agg({'distance_km': ['count', 'mean'],
\* 'pace_min_per_km': 'mean', 'average_heartrate': 'mean'}).round(2): one
\* entry per label of the batch, its means in hundredths (of a km, of a
\* min/km, of a beat per minute).
Summarise(f) ==
    [l \in {f.run_type[i] : i \in DOMAIN f.run_type} |->
        LET g == Group(f, l)
        IN  [count |-> Len(g),
             distance_km |-> Mean([i \in DOMAIN g |-> Num(g[i].distance_km)], 1, 1),
             pace_min_per_km |->
                 Mean([i \in DOMAIN g |-> Num(g[i].pace_min_per_km)], 1, 10),
             average_heartrate |->
                 Mean([i \in DOMAIN g |-> g[i].average_heartrate], 100, 1)]]

\* classifier.calculate_personal_bests(b)
CalculatePersonalBests ==
    /\ pc = "idle"
    /\ runs < MaxRuns
    /\ \E b \in Batches :
         LET t5  == calculate_personal_best(b, "pace_5k", tracked_pb_5k_pace)
             t10 == calculate_personal_best(b, "pace_10k", tracked_pb_10k_pace)
         IN  /\ frames' = [frames EXCEPT !.caller = b]
             /\ snapshot' = b
             /\ repeat' = (op = "calculate_personal_bests" /\ b = frames.caller)
             /\ tracked_pb_5k_pace' = t5
             /\ tracked_pb_10k_pace' = t10
             /\ error' = print_personal_bests(t5, t10)
    /\ prev_tracked' = <<tracked_pb_5k_pace, tracked_pb_10k_pace>>
    /\ op' = "calculate_personal_bests"
    /\ runs' = runs + 1
    /\ UNCHANGED <<max_hr, known_pb_5k_pace, known_pb_10k_pace, row, run_type,
                   prev_type, pc, numeric, df, applied, derivations, seen,
                   summary>>
    /\ UNCHANGED pipeline_vars

\* classifier.classify_dataframe(b) or classifier.get_classification_summary(b),
\* up to the call of df.apply: the copy and calculate_personal_bests
ClassifyDataframeBegin ==
    /\ pc = "idle"
    /\ runs < MaxRuns
    /\ \E b \in Batches \ {EmptyFrame} :
         LET passed == [frames EXCEPT !.caller = b]
             new    == df_copy("caller")
             copied == [passed EXCEPT ![new] = passed.caller]
             t5  == calculate_personal_best(copied[new], "pace_5k",
                                            tracked_pb_5k_pace)
             t10 == calculate_personal_best(copied[new], "pace_10k",
                                            tracked_pb_10k_pace)
         IN  /\ frames' = copied
             /\ df' = new
             /\ snapshot' = b
             /\ tracked_pb_5k_pace' = t5
             /\ tracked_pb_10k_pace' = t10
             /\ error' = print_personal_bests(t5, t10)
    /\ op' \in {"classify_dataframe", "get_classification_summary"}
    /\ prev_tracked' = <<tracked_pb_5k_pace, tracked_pb_10k_pace>>
    /\ repeat' = FALSE
    /\ derivations' = 1
    /\ applied' = <<>>
    /\ runs' = runs + 1
    /\ pc' = "apply"
    /\ UNCHANGED <<max_hr, known_pb_5k_pace, known_pb_10k_pace, row, run_type,
                   prev_type, numeric, seen, summary>>
    /\ UNCHANGED pipeline_vars

\* variant: the personal bests derived again for every row
ApplyRow_Rederive ==
    /\ pc = "apply"
    /\ Len(applied) < Len(frames[df].rows)
    /\ LET label == classify_run(frames[df].rows[Len(applied) + 1])
       IN  IF label \in Labels
           THEN /\ applied' = Append(applied, label)
                /\ UNCHANGED <<pc, error>>
           ELSE /\ error' = label
                /\ pc' = "idle"
                /\ UNCHANGED applied
    /\ derivations' = derivations + 1
    /\ UNCHANGED <<registry, row, run_type, prev_type, numeric, frames, df,
                   op, prev_tracked, repeat, seen, snapshot, runs, summary>>
    /\ UNCHANGED pipeline_vars

\* variant: the labels collected last row first
ApplyRow_Prepend ==
    /\ pc = "apply"
    /\ Len(applied) < Len(frames[df].rows)
    /\ LET label == classify_run(frames[df].rows[Len(applied) + 1])
       IN  IF label \in Labels
           THEN /\ applied' = <<label>> \o applied
                /\ UNCHANGED <<pc, error>>
           ELSE /\ error' = label
                /\ pc' = "idle"
                /\ UNCHANGED applied
    /\ UNCHANGED <<registry, row, run_type, prev_type, numeric, frames, df,
                   derivations, op, prev_tracked, repeat, seen, snapshot,
                   runs, summary>>
    /\ UNCHANGED pipeline_vars

\* df.apply(self.classify_run, axis=1): the call on the next row
ApplyRow ==
    /\ pc = "apply"
    /\ Len(applied) < Len(frames[df].rows)
    /\ LET label == classify_run(frames[df].rows[Len(applied) + 1])
       IN  IF label \in Labels
           THEN /\ applied' = Append(applied, label)
                /\ UNCHANGED <<pc, error>>
           ELSE /\ error' = label
                /\ pc' = "idle"
                /\ UNCHANGED applied
    /\ UNCHANGED <<registry, row, run_type, prev_type, numeric, frames, df,
                   derivations, op, prev_tracked, repeat, seen, snapshot,
                   runs, summary>>
    /\ UNCHANGED pipeline_vars

\* df['run_type'] = ...; return df; in get_classification_summary the
\* groupby and agg that follow, which raise KeyError when the frame has no
\* average_heartrate column
ClassifyDataframeEnd ==
    /\ pc = "apply"
    /\ Len(applied) = Len(frames[df].rows)
    /\ frames' = [frames EXCEPT ![df].run_type = applied]
    /\ seen' = seen \cup {<<frames[df].rows[i].activity_id, runs, applied[i]>> :
                            i \in DOMAIN applied}
    /\ IF op # "get_classification_summary"
       THEN UNCHANGED <<summary, error>>
       ELSE IF ~HasColumn(frames[df].rows, "average_heartrate")
       THEN error' = "KeyError" /\ UNCHANGED summary
       ELSE summary' = Summarise(frames'[df]) /\ UNCHANGED error
    /\ pc' = "idle"
    /\ UNCHANGED <<registry, row, run_type, prev_type, numeric, df, applied,
                   derivations, op, prev_tracked, repeat, snapshot, runs>>
    /\ UNCHANGED pipeline_vars

BatchInit ==
    /\ BatchIdle
    /\ PipelineIdle
    /\ max_hr \in MaxHrValues
    /\ known_pb_5k_pace = Known5kPace
    /\ known_pb_10k_pace = Known10kPace
    /\ tracked_pb_5k_pace = None
    /\ tracked_pb_10k_pace = None
    /\ row = AnyRow
    /\ run_type = NoLabel
    /\ prev_type = NoLabel
    /\ pc = "idle"
    /\ numeric = "python"

BatchNext ==
    \/ CalculatePersonalBests
    \/ ClassifyDataframeBegin
    \/ ApplyRow
    \/ ClassifyDataframeEnd

BatchSpec == BatchInit /\ [][BatchNext]_vars

----------------------------------------------------------------------------
(* Rows whose optional fields may hold Python None: a dict, or a row of a  *)
(* frame whose column is all None (pd.DataFrame of records built with      *)
(* run.get('average_heartrate'))                                           *)

NullRows == [distance_km : {600, 1400}, duration_min : {300, 700},
             average_heartrate : {Missing, NaN, None, Num(0), Num(133), Num(140)},
             max_heartrate : {Missing, NaN, None, Num(170), Num(190)},
             pace_1k : {None, NaN, Num(4080)},
             pace_2_mile : {Missing, None, Num(4620)},
             pace_5k : {Missing, None, NaN, Num(4170)},
             pace_10k : {None, Num(4370)}]

NullInit ==
    /\ BatchIdle
    /\ PipelineIdle
    /\ max_hr \in MaxHrValues
    /\ known_pb_5k_pace = Known5kPace
    /\ known_pb_10k_pace = Known10kPace
    /\ tracked_pb_5k_pace = None
    /\ tracked_pb_10k_pace = None
    /\ row \in NullRows
    /\ run_type = NoLabel
    /\ prev_type = NoLabel
    /\ pc = "start"
    /\ numeric = "python"

NullNext == ClassifyRun

NullSpec == NullInit /\ [][NullNext]_vars

----------------------------------------------------------------------------
(* A classifier constructed with max_hr = 0 *)

ZeroHrRows == [distance_km : {600, 1400}, duration_min : {300, 700},
               average_heartrate : {Missing, NaN, Num(0), Num(133)},
               max_heartrate : {Missing, NaN, Num(0), Num(170), Num(190)},
               pace_1k : {Missing, Num(4080), Num(4090)},
               pace_2_mile : {Missing, Num(4620)},
               pace_5k : {Missing, Num(4180)},
               pace_10k : {Missing, Num(4380)}]

ZeroHrInit ==
    /\ BatchIdle
    /\ PipelineIdle
    /\ max_hr = 0
    /\ known_pb_5k_pace = Known5kPace
    /\ known_pb_10k_pace = Known10kPace
    /\ tracked_pb_5k_pace = None
    /\ tracked_pb_10k_pace = None
    /\ row \in ZeroHrRows
    /\ run_type = NoLabel
    /\ prev_type = NoLabel
    /\ pc = "start"
    /\ numeric \in {"python", "numpy"}

ZeroHrNext == ClassifyRun

ZeroHrSpec == ZeroHrInit /\ [][ZeroHrNext]_vars

----------------------------------------------------------------------------
(* A caller that classifies a row, then derives personal bests from some   *)
(* batch and classifies the row again with another pace_min_per_km         *)

VariedRows ==
    {r \in [distance_km : {600, 1400}, duration_min : {300, 700},
            pace_min_per_km : {2140, 5000, 11670},
            average_heartrate : {Missing, Num(133), Num(140)},
            max_heartrate : {Missing, Num(170), Num(190)},
            pace_1k : {Missing, Num(4080)},
            pace_2_mile : {Missing, Num(4620)},
            pace_5k : {Missing, Num(4170), Num(4180)},
            pace_10k : {Missing, Num(4380)}] :
        r.pace_min_per_km = PaceMinPerKm(r.duration_min, r.distance_km)}

OverallPaceValues == {4100, 5000, 9990}

VariedInit ==
    /\ BatchIdle
    /\ PipelineIdle
    /\ max_hr \in MaxHrValues
    /\ known_pb_5k_pace = Known5kPace
    /\ known_pb_10k_pace = Known10kPace
    /\ tracked_pb_5k_pace = None
    /\ tracked_pb_10k_pace = None
    /\ row \in VariedRows
    /\ run_type = NoLabel
    /\ prev_type = NoLabel
    /\ pc = "start"
    /\ numeric = "python"

\* classifier.calculate_personal_bests(b), then classifier.classify_run on
\* the row with another pace_min_per_km
ReclassifyVaried ==
    /\ pc = "classified"
    /\ \E b \in Batches :
         /\ tracked_pb_5k_pace' =
                calculate_personal_best(b, "pace_5k", tracked_pb_5k_pace)
         /\ tracked_pb_10k_pace' =
                calculate_personal_best(b, "pace_10k", tracked_pb_10k_pace)
    /\ \E p \in OverallPaceValues : row' = [row EXCEPT !.pace_min_per_km = p]
    /\ prev_type' = run_type
    /\ run_type' = classify_run(row')
    /\ pc' = "reclassified"
    /\ UNCHANGED <<max_hr, known_pb_5k_pace, known_pb_10k_pace, numeric,
                   batch_vars>>
    /\ UNCHANGED pipeline_vars

VariedNext == ClassifyRun \/ ReclassifyVaried

VariedSpec == VariedInit /\ [][VariedNext]_vars

----------------------------------------------------------------------------
(* One get_classification_summary call on a batch of easy runs: three of   *)
(* 5, 6 and 7 km at a low heart rate, and three of 10 km whose average     *)
(* heart rate is 0, high, or not recorded                                  *)

MaxSummaryBatch == 3

SummaryActivities ==
    { [activity_id |-> 11, distance_km |-> 500, duration_min |-> 300,
       pace_min_per_km |-> PaceMinPerKm(300, 500),
       average_heartrate |-> Num(120), max_heartrate |-> Num(150),
       pace_1k |-> Missing, pace_2_mile |-> Missing,
       pace_5k |-> Missing, pace_10k |-> Missing],
      [activity_id |-> 12, distance_km |-> 600, duration_min |-> 360,
       pace_min_per_km |-> PaceMinPerKm(360, 600),
       average_heartrate |-> Num(125), max_heartrate |-> Num(150),
       pace_1k |-> Missing, pace_2_mile |-> Missing,
       pace_5k |-> Missing, pace_10k |-> Missing],
      [activity_id |-> 13, distance_km |-> 700, duration_min |-> 420,
       pace_min_per_km |-> PaceMinPerKm(420, 700),
       average_heartrate |-> Num(130), max_heartrate |-> Num(150),
       pace_1k |-> Missing, pace_2_mile |-> Missing,
       pace_5k |-> Missing, pace_10k |-> Missing],
      [activity_id |-> 14, distance_km |-> 1000, duration_min |-> 500,
       pace_min_per_km |-> PaceMinPerKm(500, 1000),
       average_heartrate |-> Num(0), max_heartrate |-> Num(0),
       pace_1k |-> Missing, pace_2_mile |-> Missing,
       pace_5k |-> Missing, pace_10k |-> Missing],
      [activity_id |-> 15, distance_km |-> 1000, duration_min |-> 500,
       pace_min_per_km |-> PaceMinPerKm(500, 1000),
       average_heartrate |-> Num(160), max_heartrate |-> Num(170),
       pace_1k |-> Missing, pace_2_mile |-> Missing,
       pace_5k |-> Missing, pace_10k |-> Missing],
      [activity_id |-> 16, distance_km |-> 1000, duration_min |-> 500,
       pace_min_per_km |-> PaceMinPerKm(500, 1000),
       average_heartrate |-> Missing, max_heartrate |-> Missing,
       pace_1k |-> Missing, pace_2_mile |-> Missing,
       pace_5k |-> Missing, pace_10k |-> Missing] }

SummaryBatches ==
    {DataFrame(records) :
        records \in SeqsUpTo(SummaryActivities, MaxSummaryBatch)}

\* classifier.get_classification_summary(b), up to the first row of df.apply
GetClassificationSummaryBegin ==
    /\ pc = "idle"
    /\ runs = 0
    /\ \E b \in SummaryBatches \ {EmptyFrame} :
         LET passed == [frames EXCEPT !.caller = b]
             new    == df_copy("caller")
             copied == [passed EXCEPT ![new] = passed.caller]
             t5  == calculate_personal_best(copied[new], "pace_5k",
                                            tracked_pb_5k_pace)
             t10 == calculate_personal_best(copied[new], "pace_10k",
                                            tracked_pb_10k_pace)
         IN  /\ frames' = copied
             /\ df' = new
             /\ snapshot' = b
             /\ tracked_pb_5k_pace' = t5
             /\ tracked_pb_10k_pace' = t10
             /\ error' = print_personal_bests(t5, t10)
    /\ op' = "get_classification_summary"
    /\ prev_tracked' = <<tracked_pb_5k_pace, tracked_pb_10k_pace>>
    /\ repeat' = FALSE
    /\ derivations' = 1
    /\ applied' = <<>>
    /\ runs' = runs + 1
    /\ pc' = "apply"
    /\ UNCHANGED <<max_hr, known_pb_5k_pace, known_pb_10k_pace, row, run_type,
                   prev_type, numeric, seen, summary>>
    /\ UNCHANGED pipeline_vars

SummaryInit ==
    /\ BatchIdle
    /\ PipelineIdle
    /\ max_hr \in MaxHrValues
    /\ known_pb_5k_pace = Known5kPace
    /\ known_pb_10k_pace = Known10kPace
    /\ tracked_pb_5k_pace = None
    /\ tracked_pb_10k_pace = None
    /\ row = AnyRow
    /\ run_type = NoLabel
    /\ prev_type = NoLabel
    /\ pc = "idle"
    /\ numeric = "python"

SummaryNext ==
    \/ GetClassificationSummaryBegin
    \/ ApplyRow
    \/ ClassifyDataframeEnd

SummarySpec == SummaryInit /\ [][SummaryNext]_vars

----------------------------------------------------------------------------
(* CSV files.  A file is a table [columns, rows, run_type, exists]: the    *)
(* header, the records, the run_type column (<<>> without one), and        *)
(* whether the file is on disk.  The columns the model keeps are the ones  *)
(* the classifier and the summary read.                                    *)

\* df.columns of a frame that has rows
Columns(f) ==
    {k \in DOMAIN f.rows[1] : k \notin OptionalKeys \/ HasColumn(f.rows, k)}
        \cup (IF f.run_type # <<>> THEN {"run_type"} ELSE {})

\* df.to_csv(path, index=False): under a column of the header a None, like
\* a NaN, is written as an empty cell
to_csv(f, columns) ==
    [columns |-> columns,
     rows |-> [i \in DOMAIN f.rows |->
                 [k \in DOMAIN f.rows[i] |->
                    IF k \in OptionalKeys /\ k \in columns
                         /\ f.rows[i][k].kind \in {"none", "missing"}
                    THEN NaN ELSE f.rows[i][k]]],
     run_type |-> f.run_type,
     exists |-> TRUE]

\* pd.read_csv(path): an empty cell of a column of the header is a NaN
read_csv(file) ==
    [rows |-> [i \in DOMAIN file.rows |->
                 [k \in DOMAIN file.rows[i] |->
                    IF k \in OptionalKeys /\ k \in file.columns
                         /\ file.rows[i][k].kind = "missing"
                    THEN NaN ELSE file.rows[i][k]]],
     run_type |-> file.run_type]

----------------------------------------------------------------------------
(* fetch_activities.py: main fetches the runs, create_running_dataframe    *)
(* asks for the detail of each and builds one row per answer               *)

MaxFetched == 3

\* The runs of the athlete as the API serves them: distance in metres,
\* moving_time in seconds, status the status code of the detail request,
\* best_efforts the best efforts of the detail
StravaRuns ==
    { [id |-> 1, distance |-> 6004, moving_time |-> 1800,
       average_heartrate |-> Num(133), max_heartrate |-> Num(150),
       status |-> 200,
       best_efforts |-> <<[distance |-> 5000, elapsed_time |-> 1230]>>],
      [id |-> 2, distance |-> 4, moving_time |-> 4,
       average_heartrate |-> None, max_heartrate |-> None,
       status |-> 200, best_efforts |-> <<>>],
      [id |-> 3, distance |-> 10000, moving_time |-> 3000,
       average_heartrate |-> None, max_heartrate |-> None,
       status |-> 404, best_efforts |-> <<>>],
      [id |-> 4, distance |-> 12010, moving_time |-> 3600,
       average_heartrate |-> Num(140), max_heartrate |-> Num(160),
       status |-> 200,
       best_efforts |-> <<[distance |-> 1000, elapsed_time |-> 240],
                          [distance |-> 5012, elapsed_time |-> 1290],
                          [distance |-> 10000, elapsed_time |-> 2520]>>] }

\* round((time_seconds / 60) / (distance_meters / 1000), 2), in thousandths
calculate_pace_from_effort(time_seconds, distance_meters) ==
    IF time_seconds = 0 \/ distance_meters = 0 THEN None
    ELSE Num(10 * Round(100000 * time_seconds, 60 * distance_meters))

\* abs(distance - target_dist) < 50 for the targets 1000, 3218.69, 5000 and
\* 10000 m, on whole metres
MatchesTarget(distance, name) ==
    CASE name = "pace_1k"     -> 951 <= distance /\ distance <= 1049
      [] name = "pace_2_mile" -> 3169 <= distance /\ distance <= 3268
      [] name = "pace_5k"     -> 4951 <= distance /\ distance <= 5049
      [] name = "pace_10k"    -> 9951 <= distance /\ distance <= 10049

\* the pace keys of efforts_data; a later effort of the same target
\* overwrites an earlier one, a target without effort leaves no key
extract_best_efforts(detailed) ==
    [name \in {"pace_1k", "pace_2_mile", "pace_5k", "pace_10k"} |->
        LET m == SelectSeq(detailed.best_efforts,
                           LAMBDA e : MatchesTarget(e.distance, name))
        IN  IF m = <<>> THEN Missing
            ELSE calculate_pace_from_effort(m[Len(m)].elapsed_time,
                                            m[Len(m)].distance)]

\* round(run['distance'] / 1000, 2) in hundredths of a km
DistanceKm(run) == Round(run.distance, 10)

\* round(run['moving_time'] / 60, 1) in tenths of a minute
DurationMin(run) == Round(10 * run.moving_time, 60)

\* run_data of a run whose distance_km is not 0
RunData(run) ==
    [activity_id |-> run.id,
     distance_km |-> DistanceKm(run),
     duration_min |-> DurationMin(run),
     average_heartrate |-> run.average_heartrate,
     max_heartrate |-> run.max_heartrate,
     pace_min_per_km |-> PaceMinPerKm(DurationMin(run), DistanceKm(run))]
        @@ extract_best_efforts(run)

\* main up to the loop of create_running_dataframe; without runs
\* create_running_dataframe returns an empty frame and main returns None
MainBegin ==
    /\ phase \in {"none", "done"}
    /\ runs < MaxRuns
    /\ \E rs \in SeqsUpTo(StravaRuns, MaxFetched) :
         /\ fetched' = rs
         /\ IF rs = <<>>
            THEN phase' = "done" /\ returned' = "None"
            ELSE phase' = "fetch" /\ returned' = ""
    /\ enhanced_data' = <<>>
    /\ run_index' = 0
    /\ error' = ""
    /\ runs' = runs + 1
    /\ UNCHANGED <<registry, row, run_type, prev_type, pc, numeric, frames,
                   df, applied, derivations, op, prev_tracked, repeat, seen,
                   snapshot, summary, running_csv, classified_csv,
                   total_runs, loaded>>

\* variant: the pace left out when the distance is 0
ProcessRun_GuardedPace ==
    /\ phase = "fetch"
    /\ run_index < Len(fetched)
    /\ LET run == fetched[run_index + 1]
       IN  IF run.status # 200
           THEN /\ run_index' = run_index + 1
                /\ UNCHANGED <<enhanced_data, error, returned, phase>>
           ELSE IF DistanceKm(run) = 0
           THEN /\ enhanced_data' =
                      Append(enhanced_data,
                             [activity_id |-> run.id,
                              distance_km |-> DistanceKm(run),
                              duration_min |-> DurationMin(run),
                              average_heartrate |-> run.average_heartrate,
                              max_heartrate |-> run.max_heartrate,
                              pace_min_per_km |-> 0]
                                 @@ extract_best_efforts(run))
                /\ run_index' = run_index + 1
                /\ UNCHANGED <<error, returned, phase>>
           ELSE /\ enhanced_data' = Append(enhanced_data, RunData(run))
                /\ run_index' = run_index + 1
                /\ UNCHANGED <<error, returned, phase>>
    /\ UNCHANGED <<registry, row, run_type, prev_type, pc, numeric, frames,
                   df, applied, derivations, op, prev_tracked, repeat, seen,
                   snapshot, runs, summary, running_csv, classified_csv,
                   fetched, total_runs, loaded>>

\* variant: the loop left at the first failed detail request
ProcessRun_StopOnFailure ==
    /\ phase = "fetch"
    /\ run_index < Len(fetched)
    /\ LET run == fetched[run_index + 1]
       IN  IF run.status # 200
           THEN /\ run_index' = Len(fetched)
                /\ UNCHANGED <<enhanced_data, error, returned, phase>>
           ELSE IF DistanceKm(run) = 0
           THEN /\ error' = "ZeroDivisionError"
                /\ returned' = "None"
                /\ phase' = "done"
                /\ UNCHANGED <<enhanced_data, run_index>>
           ELSE /\ enhanced_data' = Append(enhanced_data, RunData(run))
                /\ run_index' = run_index + 1
                /\ UNCHANGED <<error, returned, phase>>
    /\ UNCHANGED <<registry, row, run_type, prev_type, pc, numeric, frames,
                   df, applied, derivations, op, prev_tracked, repeat, seen,
                   snapshot, runs, summary, running_csv, classified_csv,
                   fetched, total_runs, loaded>>

\* One pass of the loop of create_running_dataframe.  fetch_detailed_activity
\* returns the detail on status 200 and None otherwise; without detail the
\* run is skipped.  duration_min / distance_km on Python floats raises
\* ZeroDivisionError when distance_km is 0.0: the exception leaves
\* create_running_dataframe, main catches it and returns None.
ProcessRun ==
    /\ phase = "fetch"
    /\ run_index < Len(fetched)
    /\ LET run == fetched[run_index + 1]
       IN  IF run.status # 200
           THEN /\ run_index' = run_index + 1
                /\ UNCHANGED <<enhanced_data, error, returned, phase>>
           ELSE IF DistanceKm(run) = 0
           THEN /\ error' = "ZeroDivisionError"
                /\ returned' = "None"
                /\ phase' = "done"
                /\ UNCHANGED <<enhanced_data, run_index>>
           ELSE /\ enhanced_data' = Append(enhanced_data, RunData(run))
                /\ run_index' = run_index + 1
                /\ UNCHANGED <<error, returned, phase>>
    /\ UNCHANGED <<registry, row, run_type, prev_type, pc, numeric, frames,
                   df, applied, derivations, op, prev_tracked, repeat, seen,
                   snapshot, runs, summary, running_csv, classified_csv,
                   fetched, total_runs, loaded>>

\* df = pd.DataFrame(enhanced_data); return df; in main: if not df.empty,
\* df.to_csv('running_data.csv') and return df, else return None
MainEnd ==
    /\ phase = "fetch"
    /\ run_index = Len(fetched)
    /\ IF enhanced_data # <<>>
       THEN /\ running_csv' = to_csv(DataFrame(enhanced_data),
                                     Columns(DataFrame(enhanced_data)))
            /\ returned' = "df"
       ELSE /\ returned' = "None"
            /\ UNCHANGED running_csv
    /\ phase' = "done"
    /\ UNCHANGED <<registry, row, run_type, prev_type, pc, numeric, frames,
                   df, applied, derivations, op, prev_tracked, repeat, seen,
                   snapshot, error, runs, summary, classified_csv, fetched,
                   enhanced_data, run_index, total_runs, loaded>>

FetchInit ==
    /\ BatchIdle
    /\ PipelineIdle
    /\ max_hr = DefaultMaxHr
    /\ known_pb_5k_pace = Known5kPace
    /\ known_pb_10k_pace = Known10kPace
    /\ tracked_pb_5k_pace = None
    /\ tracked_pb_10k_pace = None
    /\ row = AnyRow
    /\ run_type = NoLabel
    /\ prev_type = NoLabel
    /\ pc = "idle"
    /\ numeric = "python"

FetchNext == MainBegin \/ ProcessRun \/ MainEnd

FetchSpec == FetchInit /\ [][FetchNext]_vars

----------------------------------------------------------------------------
(* analyze_your_runs: read running_data.csv, classify it with a new        *)
(* classifier, report, write classified_running_data.csv, report again     *)

\* the header main writes: run_data has the two heart-rate keys for every run
FetchColumns(f) == Columns(f) \cup {"average_heartrate", "max_heartrate"}

\* a running_data.csv with a header and no record
HeaderOnly ==
    [columns |-> {"activity_id", "distance_km", "duration_min",
                  "pace_min_per_km", "average_heartrate", "max_heartrate"},
     rows |-> <<>>, run_type |-> <<>>, exists |-> TRUE]

\* the running_data.csv files analyze_your_runs may find
RunningFiles ==
    {NoFile, HeaderOnly} \cup
    {to_csv(b, FetchColumns(b)) : b \in Batches \ {EmptyFrame}}

\* a classified_running_data.csv left by an earlier analysis
StaleClassified ==
    LET b == DataFrame(<<CHOOSE a \in Activities : a.activity_id = 5>>)
    IN  to_csv([b EXCEPT !.run_type = <<"Recovery">>],
               FetchColumns(b) \cup {"run_type"})

\* (count / total_runs) * 100, in tenths of a percent
Percentage(count, total) ==
    IF total = 0 THEN [kind |-> "ZeroDivisionError", val |-> 0]
    ELSE Num(Round(1000 * count, total))

\* df = pd.read_csv('running_data.csv'), return None when there is no such
\* file; classifier = PfitzRunClassifier(max_hr=191)
AnalyzeLoad ==
    /\ phase = "none"
    /\ IF ~running_csv.exists
       THEN /\ returned' = "None"
            /\ phase' = "done"
            /\ UNCHANGED <<frames, registry>>
       ELSE /\ frames' = [frames EXCEPT !.caller = read_csv(running_csv)]
            /\ max_hr' = DefaultMaxHr
            /\ known_pb_5k_pace' = Known5kPace
            /\ known_pb_10k_pace' = Known10kPace
            /\ tracked_pb_5k_pace' = None
            /\ tracked_pb_10k_pace' = None
            /\ phase' = "loaded"
            /\ UNCHANGED returned
    /\ UNCHANGED <<row, run_type, prev_type, pc, numeric, df, applied,
                   derivations, op, prev_tracked, repeat, seen, snapshot,
                   error, runs, summary, running_csv, classified_csv, fetched,
                   enhanced_data, run_index, total_runs, loaded>>

\* classifier.get_classification_summary(df), up to the first row of
\* df.apply.  On a frame without rows df.apply returns an empty frame; what
\* df['run_type'] = <empty frame> does depends on the pandas at hand: it
\* raises ValueError, or it adds an empty run_type column.
AnalyzeClassifyBegin ==
    /\ phase = "loaded"
    /\ LET b      == frames.caller
           new    == df_copy("caller")
           copied == [frames EXCEPT ![new] = b]
           t5  == calculate_personal_best(b, "pace_5k", tracked_pb_5k_pace)
           t10 == calculate_personal_best(b, "pace_10k", tracked_pb_10k_pace)
       IN  /\ frames' = copied
           /\ df' = new
           /\ snapshot' = b
           /\ tracked_pb_5k_pace' = t5
           /\ tracked_pb_10k_pace' = t10
           /\ IF b.rows # <<>>
              THEN /\ error' = print_personal_bests(t5, t10)
                   /\ pc' = "apply"
              ELSE /\ error' \in {"ValueError", ""}
                   /\ pc' = "idle"
    /\ op' = "get_classification_summary"
    /\ prev_tracked' = <<tracked_pb_5k_pace, tracked_pb_10k_pace>>
    /\ repeat' = FALSE
    /\ derivations' = 1
    /\ applied' = <<>>
    /\ summary' = <<>>
    /\ runs' = runs + 1
    /\ phase' = "classifying"
    /\ UNCHANGED <<max_hr, known_pb_5k_pace, known_pb_10k_pace, row, run_type,
                   prev_type, numeric, seen, running_csv, classified_csv,
                   fetched, enhanced_data, run_index, total_runs, returned,
                   loaded>>

\* run_type_counts, total_runs = len(classified_df) and the percentage of
\* every category of run_type_counts; an exception of
\* get_classification_summary ends analyze_your_runs
AnalyzeReport ==
    /\ phase = "classifying"
    /\ pc = "idle"
    /\ IF error # ""
       THEN /\ phase' = "done"
            /\ UNCHANGED <<total_runs, error>>
       ELSE LET n == Len(frames[df].rows)
                percentages ==
                    {Percentage(summary[l].count, n) : l \in DOMAIN summary}
            IN  /\ total_runs' = n
                /\ IF \E p \in percentages : p.kind = "ZeroDivisionError"
                   THEN error' = "ZeroDivisionError" /\ phase' = "done"
                   ELSE phase' = "save" /\ UNCHANGED error
    /\ UNCHANGED <<registry, row, run_type, prev_type, pc, numeric, frames,
                   df, applied, derivations, op, prev_tracked, repeat, seen,
                   snapshot, runs, summary, running_csv, classified_csv,
                   fetched, enhanced_data, run_index, returned, loaded>>

\* variant: the file written while df.apply is still at work, with the
\* labels it has so far
AnalyzeSave_DuringApply ==
    /\ phase = "classifying"
    /\ pc = "apply"
    /\ classified_csv' = to_csv([frames[df] EXCEPT !.run_type = applied],
                                running_csv.columns \cup {"run_type"})
    /\ UNCHANGED <<registry, row, run_type, prev_type, pc, numeric, frames,
                   df, applied, derivations, op, prev_tracked, repeat, seen,
                   snapshot, error, runs, summary, running_csv, fetched,
                   enhanced_data, run_index, phase, total_runs, returned,
                   loaded>>

\* the recent runs, then classified_df.to_csv('classified_running_data.csv')
AnalyzeSave ==
    /\ phase = "save"
    /\ classified_csv' = to_csv(frames[df],
                                running_csv.columns \cup {"run_type"})
    /\ phase' = "insights"
    /\ UNCHANGED <<registry, row, run_type, prev_type, pc, numeric, frames,
                   df, applied, derivations, op, prev_tracked, repeat, seen,
                   snapshot, error, runs, summary, running_csv, fetched,
                   enhanced_data, run_index, total_runs, returned, loaded>>

\* base_pct = (base_runs / total_runs) * 100, computed for every batch; the
\* quality, race and other percentages, each under `if count > 0`;
\* return classified_df
AnalyzeInsights ==
    /\ phase = "insights"
    /\ LET count(l) == IF l \in DOMAIN summary THEN summary[l].count ELSE 0
           base_runs == count("General Aerobic") + count("Recovery")
                            + count("Endurance")
           base_pct == Percentage(base_runs, total_runs)
       IN  IF base_pct.kind = "ZeroDivisionError"
           THEN error' = base_pct.kind /\ UNCHANGED returned
           ELSE returned' = "classified_df" /\ UNCHANGED error
    /\ phase' = "done"
    /\ UNCHANGED <<registry, row, run_type, prev_type, pc, numeric, frames,
                   df, applied, derivations, op, prev_tracked, repeat, seen,
                   snapshot, runs, summary, running_csv, classified_csv,
                   fetched, enhanced_data, run_index, total_runs, loaded>>

AnalyzeInit ==
    /\ BatchIdle
    /\ ScriptsIdle
    /\ running_csv \in RunningFiles
    /\ classified_csv \in {NoFile, StaleClassified}
    /\ max_hr = DefaultMaxHr
    /\ known_pb_5k_pace = Known5kPace
    /\ known_pb_10k_pace = Known10kPace
    /\ tracked_pb_5k_pace = None
    /\ tracked_pb_10k_pace = None
    /\ row = AnyRow
    /\ run_type = NoLabel
    /\ prev_type = NoLabel
    /\ pc = "idle"
    /\ numeric = "python"

AnalyzeNext ==
    \/ AnalyzeLoad
    \/ AnalyzeClassifyBegin
    \/ ApplyRow
    \/ ClassifyDataframeEnd
    \/ AnalyzeReport
    \/ AnalyzeSave
    \/ AnalyzeInsights

AnalyzeSpec == AnalyzeInit /\ [][AnalyzeNext]_vars

----------------------------------------------------------------------------
(* load_running_data of the two dashboards (app.py, dashboard.py).  What   *)
(* it returns is kept as a table: the frame with its columns.  Both parse  *)
(* the date column with pd.to_datetime, which keeps every date; the rows   *)
(* of the model carry no date.                                             *)

\* a frame together with its columns
Table(f, columns) ==
    [columns |-> columns, rows |-> f.rows, run_type |-> f.run_type,
     exists |-> TRUE]

\* df['run_type'] = 'General Aerobic'
DefaultClassification(f) ==
    [f EXCEPT !.run_type = [i \in DOMAIN f.rows |-> "General Aerobic"]]

\* pd.DataFrame({'date': [], 'distance_km': [], 'pace_min_per_km': [],
\*               'run_type': []})
EmptyDashboardFrame ==
    Table(EmptyFrame, {"date", "distance_km", "pace_min_per_km", "run_type"})

\* the classified_running_data.csv files a dashboard may find
ClassifiedFiles ==
    {NoFile} \cup
    UNION {{to_csv([b EXCEPT !.run_type = labels],
                   FetchColumns(b) \cup {"run_type"}) :
               labels \in [DOMAIN b.rows -> {"Race", "Recovery"}]} :
           b \in Batches \ {EmptyFrame}}

\* variant: the fallback to running_data.csv without its own try
load_running_data_NoInnerTry ==
    /\ runs < MaxRuns
    /\ IF classified_csv.exists
       THEN /\ loaded' = Table(read_csv(classified_csv), classified_csv.columns)
            /\ error' = ""
       ELSE IF running_csv.exists
       THEN /\ loaded' = Table(DefaultClassification(read_csv(running_csv)),
                               running_csv.columns \cup {"run_type"})
            /\ error' = ""
       ELSE /\ loaded' = NoFile
            /\ error' = "FileNotFoundError"
    /\ op' = "app.load_running_data"
    /\ runs' = runs + 1
    /\ UNCHANGED <<registry, row, run_type, prev_type, pc, numeric, frames,
                   df, applied, derivations, prev_tracked, repeat, seen,
                   snapshot, summary, running_csv, classified_csv, fetched,
                   enhanced_data, run_index, phase, total_runs, returned>>

\* app.py: load_running_data().  classified_running_data.csv if it is there,
\* else running_data.csv with every run labelled General Aerobic, else an
\* empty frame
load_running_data ==
    /\ runs < MaxRuns
    /\ IF classified_csv.exists
       THEN loaded' = Table(read_csv(classified_csv), classified_csv.columns)
       ELSE IF running_csv.exists
       THEN loaded' = Table(DefaultClassification(read_csv(running_csv)),
                            running_csv.columns \cup {"run_type"})
       ELSE loaded' = EmptyDashboardFrame
    /\ error' = ""
    /\ op' = "app.load_running_data"
    /\ runs' = runs + 1
    /\ UNCHANGED <<registry, row, run_type, prev_type, pc, numeric, frames,
                   df, applied, derivations, prev_tracked, repeat, seen,
                   snapshot, summary, running_csv, classified_csv, fetched,
                   enhanced_data, run_index, phase, total_runs, returned>>

\* dashboard.py: load_running_data().  The read of running_data.csv sits in
\* the except branch unguarded: with neither file FileNotFoundError leaves
\* the function
dashboard_load_running_data ==
    /\ runs < MaxRuns
    /\ IF classified_csv.exists
       THEN /\ loaded' = Table(read_csv(classified_csv), classified_csv.columns)
            /\ error' = ""
       ELSE IF running_csv.exists
       THEN /\ loaded' = Table(DefaultClassification(read_csv(running_csv)),
                               running_csv.columns \cup {"run_type"})
            /\ error' = ""
       ELSE /\ loaded' = NoFile
            /\ error' = "FileNotFoundError"
    /\ op' = "dashboard.load_running_data"
    /\ runs' = runs + 1
    /\ UNCHANGED <<registry, row, run_type, prev_type, pc, numeric, frames,
                   df, applied, derivations, prev_tracked, repeat, seen,
                   snapshot, summary, running_csv, classified_csv, fetched,
                   enhanced_data, run_index, phase, total_runs, returned>>

LoadInit ==
    /\ BatchIdle
    /\ ScriptsIdle
    /\ running_csv \in RunningFiles
    /\ classified_csv \in ClassifiedFiles
    /\ max_hr = DefaultMaxHr
    /\ known_pb_5k_pace = Known5kPace
    /\ known_pb_10k_pace = Known10kPace
    /\ tracked_pb_5k_pace = None
    /\ tracked_pb_10k_pace = None
    /\ row = AnyRow
    /\ run_type = NoLabel
    /\ prev_type = NoLabel
    /\ pc = "idle"
    /\ numeric = "python"

LoadNext == load_running_data \/ dashboard_load_running_data

LoadSpec == LoadInit /\ [][LoadNext]_vars

----------------------------------------------------------------------------
(* Vocabulary of the properties: the conditions as the specification      *)
(* words them, on the fields of the row                                    *)

Classified == pc \in {"classified", "reclassified"}

\* a field "exists" when the row carries a number for it
Exists(v) == v.kind = "num"

\* "absent or zero": no heart-rate data
NoHr(v) == ~Exists(v) \/ v.val = 0

\* hr / max_hr * 100 >= t, the percentage being 0 without heart-rate data
HrPctAtLeast(v, t) == IF NoHr(v) THEN 0 >= t ELSE v.val * 100 >= t * max_hr
HrPctAtMost(v, t)  == IF NoHr(v) THEN 0 <= t ELSE v.val * 100 <= t * max_hr
HrPctBelow(v, t)   == ~HrPctAtLeast(v, t)
HrPctAbove(v, t)   == ~HrPctAtMost(v, t)

RaceCond ==
    \/ Exists(row.pace_5k) /\ row.pace_5k.val <= known_pb_5k_pace + 170
    \/ Exists(row.pace_10k) /\ row.pace_10k.val <= known_pb_10k_pace + 170

Vo2Cond ==
    \/ HrPctAtLeast(row.max_heartrate, 95)
    \/ Exists(row.pace_1k) /\ row.pace_1k.val <= known_pb_5k_pace + 83

ThresholdCond ==
    /\ HrPctAtLeast(row.max_heartrate, 85)
    /\ Exists(row.pace_2_mile)
    /\ row.pace_2_mile.val <= known_pb_10k_pace + 420

RecoveryCond ==
    /\ row.distance_km <= 800
    /\ HrPctAbove(row.average_heartrate, 0)
    /\ HrPctBelow(row.average_heartrate, 70)

EnduranceCond == row.distance_km >= 1200 /\ row.duration_min >= 600

AerobicCond ==
    /\ row.distance_km >= 300
    /\ row.distance_km < 1200
    /\ row.duration_min >= 150
    /\ HrPctAtLeast(row.average_heartrate, 70)
    /\ HrPctAtMost(row.average_heartrate, 81)

----------------------------------------------------------------------------
FirstMatch ==
    IF RaceCond THEN "Race"
    ELSE IF Vo2Cond THEN "VO2 Max Intervals"
    ELSE IF ThresholdCond THEN "Lactate Threshold"
    ELSE IF RecoveryCond THEN "Recovery"
    ELSE IF EnduranceCond THEN "Endurance"
    ELSE IF AerobicCond THEN "General Aerobic"
    ELSE "Other"

C2_Precedence ==
    Classified =>
        /\ run_type = FirstMatch
        /\ (RaceCond /\ RecoveryCond => run_type = "Race")

\* C2 witness: a classified row that meets the Race and the Recovery
\* condition at once.
C2_Witness ==
    pc = "classified" /\ RaceCond /\ RecoveryCond /\ run_type = "Race"

C4_Vo2 ==
    Classified /\ run_type # "Race" =>
        (run_type = "VO2 Max Intervals" <=> Vo2Cond)

\* C4 witness: the pace condition alone (no max heart rate) gives the label.
C4_Witness ==
    /\ pc = "classified"
    /\ NoHr(row.max_heartrate)
    /\ row.pace_1k = Num(4080)
    /\ run_type = "VO2 Max Intervals"

\* C5: a row is labelled Lactate Threshold only when its max-heart-rate
\* percentage is >= 85 and its 2-mile best-effort pace exists and is
\* <= known_10k_pace + 0.42; one of the two alone never gives the label.
C5_Threshold == Classified /\ run_type = "Lactate Threshold" => ThresholdCond

\* C5 witness: a row labelled Lactate Threshold with both conditions on
\* their bounds (85 % and known_10k_pace + 0.42).
C5_Witness ==
    /\ pc = "classified"
    /\ run_type = "Lactate Threshold"
    /\ row.max_heartrate.val * 100 = 85 * max_hr
    /\ row.pace_2_mile = Num(4620)

\* C6: a row that no earlier rule takes is labelled Recovery exactly when
\* distance_km <= 8.0 and 0 < average-heart-rate percentage < 70; a row
\* whose average_heartrate is absent or zero is never labelled Recovery.
C6_Recovery ==
    Classified =>
        /\ run_type = "Recovery" <=>
               (RecoveryCond /\ ~RaceCond /\ ~Vo2Cond /\ ~ThresholdCond)
        /\ NoHr(row.average_heartrate) => run_type # "Recovery"

\* C6 witness: 8.0 km with a low average heart rate, labelled Recovery.
C6_Witness ==
    /\ pc = "classified"
    /\ row.distance_km = 800
    /\ row.average_heartrate = Num(133)
    /\ run_type = "Recovery"

\* C7: a row that no earlier rule takes is labelled Endurance exactly when
\* distance_km >= 12 and duration_min >= 60, and General Aerobic exactly
\* when 3 <= distance_km < 12, duration_min >= 15 and the average-heart-rate
\* percentage is in [70, 81].
C7_EnduranceAerobic ==
    Classified =>
        /\ run_type = "Endurance" <=>
               /\ EnduranceCond
               /\ ~RaceCond /\ ~Vo2Cond /\ ~ThresholdCond /\ ~RecoveryCond
        /\ run_type = "General Aerobic" <=>
               /\ AerobicCond
               /\ ~RaceCond /\ ~Vo2Cond /\ ~ThresholdCond /\ ~RecoveryCond
               /\ ~EnduranceCond

\* C7 witness: General Aerobic with the heart-rate percentage on the upper
\* bound 81.
C7_Witness ==
    /\ pc = "classified"
    /\ run_type = "General Aerobic"
    /\ row.average_heartrate.val * 100 = 81 * max_hr

\* C8: with no heart-rate data and no best-effort pace a row is labelled
\* Endurance when distance_km >= 12 and duration_min >= 60 and Other in every
\* other case.
NoOptionalData ==
    /\ NoHr(row.average_heartrate)
    /\ NoHr(row.max_heartrate)
    /\ ~Exists(row.pace_1k)
    /\ ~Exists(row.pace_2_mile)
    /\ ~Exists(row.pace_5k)
    /\ ~Exists(row.pace_10k)

C8_NoData ==
    Classified /\ NoOptionalData =>
        run_type = IF EnduranceCond THEN "Endurance" ELSE "Other"

\* C8 witness: 6 km in 30 min with average_heartrate 0 and no best effort,
\* labelled Other.
C8_Witness ==
    /\ pc = "classified"
    /\ NoOptionalData
    /\ row.distance_km = 600
    /\ row.duration_min = 300
    /\ row.average_heartrate = Num(0)
    /\ run_type = "Other"

\* C9: a row whose max-heart-rate percentage is >= 95 or whose 1 km
\* best-effort pace is <= known_5k_pace + 0.083 is labelled Race or VO2 Max
\* Intervals, whatever its distance, duration and average heart rate.
C9_Intensity ==
    Classified /\ Vo2Cond => run_type \in {"Race", "VO2 Max Intervals"}

\* C9 witness: a short interval session that also meets the Recovery and the
\* Lactate Threshold condition, labelled VO2 Max Intervals.
C9_Witness ==
    /\ pc = "classified"
    /\ Vo2Cond
    /\ RecoveryCond
    /\ ThresholdCond
    /\ run_type = "VO2 Max Intervals"

\* C10: with everything else fixed, making the 5 km best effort faster keeps
\* a Race a Race, and otherwise gives Race or the label the row had before.
C10_Monotone ==
    pc = "reclassified" =>
        /\ prev_type = "Race" => run_type = "Race"
        /\ run_type \in {"Race", prev_type}

\* C10 witness: the faster 5 km pace crosses the threshold, a Recovery row
\* becomes a Race.
C10_Witness ==
    /\ pc = "reclassified"
    /\ prev_type = "Recovery"
    /\ run_type = "Race"

----------------------------------------------------------------------------
(* Vocabulary of the batch properties *)

\* the best-effort paces the records of the passed batch have for a field
BatchPaces(key) ==
    {snapshot.rows[i][key].val :
        i \in {j \in DOMAIN snapshot.rows : Exists(snapshot.rows[j][key])}}

\* v is the minimum of the set S
IsMinOf(v, S) == Exists(v) /\ v.val \in S /\ \A x \in S : v.val <= x

\* what a derivation from the passed batch alone gives
FreshFrom(v, S) == IF S = {} THEN v = None ELSE IsMinOf(v, S)

\* a classify_dataframe / get_classification_summary call has returned
Returned ==
    /\ pc = "idle"
    /\ op \in {"classify_dataframe", "get_classification_summary"}
    /\ error = ""

\* C11: after calculate_personal_bests on a batch in which some record has a
\* 5 km (10 km) best-effort pace, the tracked 5 km (10 km) pace is the minimum
\* of that field over the records of the batch that have it.
C11_TrackedIsMin ==
    op = "calculate_personal_bests" =>
        /\ BatchPaces("pace_5k") # {} =>
               IsMinOf(tracked_pb_5k_pace, BatchPaces("pace_5k"))
        /\ BatchPaces("pace_10k") # {} =>
               IsMinOf(tracked_pb_10k_pace, BatchPaces("pace_10k"))

\* C11 witness: a batch of two records whose second one holds the faster
\* 5 km effort.
C11_Witness ==
    /\ op = "calculate_personal_bests"
    /\ Len(snapshot.rows) = 2
    /\ snapshot.rows[1].pace_5k = Num(4100)
    /\ snapshot.rows[2].pace_5k = Num(3900)
    /\ tracked_pb_5k_pace = Num(3900)

\* C12: on a new classifier, calculate_personal_bests over an empty batch or
\* a batch without 5 km (10 km) best efforts raises nothing and leaves the
\* tracked 5 km (10 km) pace undefined, not zero.
C12_NoEfforts ==
    op = "calculate_personal_bests" /\ runs = 1 =>
        /\ error = ""
        /\ BatchPaces("pace_5k") = {} =>
               tracked_pb_5k_pace = None /\ tracked_pb_5k_pace # Num(0)
        /\ BatchPaces("pace_10k") = {} =>
               tracked_pb_10k_pace = None /\ tracked_pb_10k_pace # Num(0)

\* C12 witness: the first call, on a batch that has 5 km efforts and no
\* 10 km effort.
C12_Witness ==
    /\ op = "calculate_personal_bests"
    /\ runs = 1
    /\ BatchPaces("pace_5k") # {}
    /\ BatchPaces("pace_10k") = {}
    /\ Len(snapshot.rows) > 0
    /\ tracked_pb_10k_pace = None
    /\ error = ""

\* C13: after any sequence of calculate_personal_bests / classify_dataframe
\* calls the tracked paces are what a derivation from the most recent batch
\* alone gives, undefined when that batch has no effort at the distance.
C13_PureOfBatch ==
    op # "none" =>
        /\ FreshFrom(tracked_pb_5k_pace, BatchPaces("pace_5k"))
        /\ FreshFrom(tracked_pb_10k_pace, BatchPaces("pace_10k"))

\* C14: calculate_personal_bests called twice in a row with the same batch
\* leaves the tracked paces as they were after the first call.
C14_Idempotent ==
    repeat => <<tracked_pb_5k_pace, tracked_pb_10k_pace>> = prev_tracked

\* C14 witness: the repeated call, on a batch with a 5 km effort.
C14_Witness ==
    /\ repeat
    /\ BatchPaces("pace_5k") # {}
    /\ Exists(tracked_pb_5k_pace)

\* C15: in a classify_dataframe run the tracked paces are derived once, before
\* the first record is classified, and no classify_run call changes the
\* tracked paces, the known paces or max_hr.
C15_WriteBeforeRead ==
    [][pc = "apply" =>
          /\ derivations = 1
          /\ derivations' = 1
          /\ UNCHANGED registry]_vars

\* C15 witness: two records classified, the tracked 5 km pace set.
C15_Witness ==
    /\ pc = "apply"
    /\ Len(applied) = 2
    /\ derivations = 1
    /\ Exists(tracked_pb_5k_pace)

\* C16: classify_dataframe returns the records of the batch, as many and in
\* the same order, the i-th with the fields of the i-th input record and the
\* label classify_run gives it.
C16_OrderAndLabels ==
    Returned =>
        /\ frames[df].rows = snapshot.rows
        /\ Len(frames[df].run_type) = Len(snapshot.rows)
        /\ \A i \in DOMAIN snapshot.rows :
               frames[df].run_type[i] = classify_run(snapshot.rows[i])

\* C16 witness: two records with different labels, returned in input order.
C16_Witness ==
    /\ Returned
    /\ Len(snapshot.rows) = 2
    /\ snapshot.rows[1].activity_id = 4
    /\ snapshot.rows[2].activity_id = 2
    /\ frames[df].run_type = <<"Endurance", "Race">>

\* C17: classification leaves the caller's batch as it was, same records,
\* same values, no label column; the returned batch differs from it only by
\* the run_type column.
C17_InputUntouched ==
    op # "none" =>
        /\ frames.caller = snapshot
        /\ frames.caller.run_type = <<>>
        /\ Returned => frames[df].rows = snapshot.rows

\* C17 witness: get_classification_summary has returned a labelled batch.
C17_Witness ==
    /\ Returned
    /\ op = "get_classification_summary"
    /\ Len(frames[df].run_type) = 2
    /\ frames.caller.run_type = <<>>

\* C18: a record gets the same label in every batch it is classified in,
\* whatever the other records of the batch.
C18_BatchIndependent ==
    \A p \in seen : \A q \in seen : p[1] = q[1] => p[3] = q[3]

\* C18 witness: a record classified in two runs between which the tracked
\* 5 km pace changed.
C18_Witness ==
    /\ Returned
    /\ runs = 2
    /\ prev_tracked[1] # tracked_pb_5k_pace
    /\ Exists(prev_tracked[1])
    /\ \E p \in seen : \E q \in seen : p[1] = q[1] /\ p[2] # q[2]

----------------------------------------------------------------------------
\* a field is absent: missing from the record, or there with a null value
Absent(v) == v.kind \in {"missing", "nan", "none"}

PaceWithin(v, bound) == Exists(v) /\ v.val <= bound

\* C19: classify_run returns a label for every record, whichever of the
\* optional fields are absent (missing or null), and a rule condition that
\* depends on an absent field is false.
C19_NeverFails ==
    Classified =>
        /\ run_type \in Labels
        /\ Absent(row.pace_5k) /\ Absent(row.pace_10k) => run_type # "Race"
        /\ Absent(row.max_heartrate) /\ Absent(row.pace_1k) =>
               run_type # "VO2 Max Intervals"
        /\ Absent(row.max_heartrate) \/ Absent(row.pace_2_mile) =>
               run_type # "Lactate Threshold"
        /\ Absent(row.average_heartrate) =>
               run_type \notin {"Recovery", "General Aerobic"}

\* C20: with max_hr = 0 classify_run returns a label for every record and no
\* heart-rate condition fires: VO2 Max Intervals only through the 1 km pace,
\* never Lactate Threshold, Recovery or General Aerobic.
C20_ZeroMaxHr ==
    Classified /\ max_hr = 0 =>
        /\ run_type \in Labels
        /\ run_type = "VO2 Max Intervals" =>
               PaceWithin(row.pace_1k, known_pb_5k_pace + 83)
        /\ run_type \notin {"Lactate Threshold", "Recovery", "General Aerobic"}

----------------------------------------------------------------------------
(* The three late rules of the cascade, as the helpers decide them on the  *)
(* row of the current state                                                *)

RowAvgHrPct == HrPct(RowGet(row, "average_heartrate", Num(0)))

LateRule(label) ==
    CASE label = "Recovery" -> _is_recovery_run(row.distance_km, RowAvgHrPct)
      [] label = "Endurance" ->
             _is_endurance_run(row.distance_km, row.duration_min)
      [] label = "General Aerobic" ->
             _is_general_aerobic(row.distance_km, RowAvgHrPct,
                                 row.duration_min)

LateLabels == {"Recovery", "Endurance", "General Aerobic"}
EarlyLabels == {"Race", "VO2 Max Intervals", "Lactate Threshold"}

\* the orders in which rules 4, 5 and 6 can be tried
LateOrders ==
    {o \in [1..3 -> LateLabels] : \A i, j \in 1..3 : o[i] = o[j] => i = j}

\* the label of the first rule of the order that holds, "Other" if none
LateCascade(o) ==
    IF LateRule(o[1]) THEN o[1]
    ELSE IF LateRule(o[2]) THEN o[2]
    ELSE IF LateRule(o[3]) THEN o[3]
    ELSE "Other"

\* C24: no record satisfies two of the Recovery, Endurance and General
\* Aerobic conditions, so whenever none of Race, VO2 Max Intervals and
\* Lactate Threshold applies, trying rules 4, 5 and 6 in any of their six
\* orders gives the label classify_run gave.
C24_LateRulesExclusive ==
    Classified =>
        /\ \A a, b \in LateLabels : a # b => ~(LateRule(a) /\ LateRule(b))
        /\ run_type \notin EarlyLabels =>
               \A o \in LateOrders : LateCascade(o) = run_type

\* a record on the shared boundary of two late rules: 8 km at exactly 70 %
\* of max_hr is General Aerobic and not Recovery
C24_Witness ==
    /\ Classified
    /\ max_hr = 200
    /\ row.distance_km = 800
    /\ row.average_heartrate = Num(140)
    /\ row.duration_min >= 150
    /\ run_type = "General Aerobic"
    /\ LateRule("General Aerobic") /\ ~LateRule("Recovery")

----------------------------------------------------------------------------
\* the inputs the label may depend on
LabelInputs(r) ==
    <<r.distance_km, r.duration_min, r.average_heartrate, r.max_heartrate,
      r.pace_1k, r.pace_2_mile, r.pace_5k, r.pace_10k>>

\* C25: the label of classify_run is a function of distance, duration, the
\* two heart rates, the four best-effort paces, max_hr and the two known PB
\* paces only: a second call on a row that differs from the first in its
\* pace_min_per_km alone, made after the tracked PB paces changed, returns
\* the label of the first call.
C25_LabelInputsOnly ==
    [][pc = "classified" /\ pc' = "reclassified"
         /\ LabelInputs(row') = LabelInputs(row)
         /\ max_hr' = max_hr
         /\ known_pb_5k_pace' = known_pb_5k_pace
         /\ known_pb_10k_pace' = known_pb_10k_pace
       => run_type' = run_type]_vars

\* a Race row classified again with a changed overall pace, after both
\* tracked PB paces were set
C25_Witness ==
    /\ pc = "reclassified"
    /\ row.pace_min_per_km # PaceMinPerKm(row.duration_min, row.distance_km)
    /\ tracked_pb_5k_pace = Num(3900)
    /\ tracked_pb_10k_pace = Num(4300)
    /\ prev_type = "Race"
    /\ run_type = "Race"

----------------------------------------------------------------------------
\* get_classification_summary has returned its summary
Summarised ==
    /\ pc = "idle"
    /\ op = "get_classification_summary"
    /\ error = ""

\* the records of the returned batch that carry label l
Labelled(l) == {i \in DOMAIN frames[df].rows : frames[df].run_type[i] = l}

\* C21: the summary has an entry for a category exactly when some record of
\* the batch has that label, and the count of the entry is the number of
\* records with the label.
C21_EntriesAndCounts ==
    Summarised =>
        /\ \A l \in Labels : l \in DOMAIN summary <=> Labelled(l) # {}
        /\ DOMAIN summary \subseteq Labels
        /\ \A l \in DOMAIN summary : summary[l].count = Cardinality(Labelled(l))

\* three Recovery records of 5, 6 and 7 km: count 3, mean distance 6.0, and
\* no entry for any other category
C21_Witness ==
    /\ Summarised
    /\ [i \in DOMAIN frames[df].rows |-> frames[df].rows[i].distance_km]
           = <<500, 600, 700>>
    /\ frames[df].run_type = <<"Recovery", "Recovery", "Recovery">>
    /\ DOMAIN summary = {"Recovery"}
    /\ summary["Recovery"].count = 3
    /\ summary["Recovery"].distance_km = Num(600)

----------------------------------------------------------------------------
\* the average heart rates of the records labelled l that have heart-rate
\* data, in index order
HrData(l) ==
    LET g == Group(frames[df], l)
    IN  SelectSeq([i \in DOMAIN g |-> g[i].average_heartrate],
                  LAMBDA v : ~NoHr(v))

\* C22: every mean of a category is taken over the records of the category
\* that have data for the field; a record with no heart-rate data (absent or
\* zero average_heartrate) adds nothing to the sum and nothing to the divisor
\* of the category's mean average heart rate.
C22_MeansSkipNoData ==
    Summarised =>
        \A l \in DOMAIN summary :
            LET g == Group(frames[df], l)
            IN  /\ summary[l].average_heartrate = Mean(HrData(l), 100, 1)
                /\ summary[l].distance_km =
                       Mean([i \in DOMAIN g |-> Num(g[i].distance_km)], 1, 1)
                /\ summary[l].pace_min_per_km =
                       Mean([i \in DOMAIN g |-> Num(g[i].pace_min_per_km)],
                            1, 10)

RECURSIVE CountSum(_)
CountSum(S) ==
    IF S = {} THEN 0
    ELSE LET l == CHOOSE x \in S : TRUE
         IN  summary[l].count + CountSum(S \ {l})

\* C26: the counts of the summary entries add up to the number of records of
\* the batch, and every record is counted in exactly one category: the one
\* entry whose label it carries.
C26_CountsPartition ==
    Summarised =>
        /\ CountSum(DOMAIN summary) = Len(frames[df].rows)
        /\ \A i \in DOMAIN frames[df].rows :
               /\ frames[df].run_type[i] \in DOMAIN summary
               /\ Cardinality({l \in DOMAIN summary : i \in Labelled(l)}) = 1
        /\ \A l \in DOMAIN summary : summary[l].count = Cardinality(Labelled(l))

\* a batch of three records in two categories, one of them without a
\* recorded heart rate: counts 2 and 1
C26_Witness ==
    /\ Summarised
    /\ Len(frames[df].rows) = 3
    /\ \E i \in DOMAIN frames[df].rows :
           frames[df].rows[i].average_heartrate = NaN
    /\ DOMAIN summary = {"Recovery", "Other"}
    /\ summary["Recovery"].count = 1
    /\ summary["Other"].count = 2

----------------------------------------------------------------------------
\* the run's detail request succeeds
FetchOk(run) == run.status = 200

\* the fetched run's distance rounds to 0 km
RoundsToZero(run) == run.distance < 5

\* C23: running_data.csv never holds a record whose distance_km is 0; when
\* the detail of a run whose distance rounds to 0 km was fetched, main fails:
\* it returns None and not a frame.
C23_NoZeroDistance ==
    /\ running_csv.exists =>
           \A i \in DOMAIN running_csv.rows : running_csv.rows[i].distance_km > 0
    /\ \A i \in DOMAIN enhanced_data : enhanced_data[i].distance_km > 0
    /\ phase = "done"
         /\ (\E i \in DOMAIN fetched :
               FetchOk(fetched[i]) /\ RoundsToZero(fetched[i]))
       => returned = "None"

\* main failed on a run of 4 m after it had built the row of an earlier run;
\* nothing was written
C23_Witness ==
    /\ phase = "done"
    /\ Len(fetched) = 2
    /\ FetchOk(fetched[1]) /\ ~RoundsToZero(fetched[1])
    /\ FetchOk(fetched[2]) /\ RoundsToZero(fetched[2])
    /\ Len(enhanced_data) = 1
    /\ error = "ZeroDivisionError"
    /\ returned = "None"
    /\ ~running_csv.exists

\* the ids of the runs of a sequence whose detail request succeeds
OkIds(rs) ==
    LET ok == SelectSeq(rs, FetchOk)
    IN  [i \in DOMAIN ok |-> ok[i].id]

\* C29: the rows create_running_dataframe has built are, in the order of the
\* input, one for each run dealt with whose detail request succeeded and none
\* for a run whose request failed; when it returns, every run has been dealt
\* with, the ones after a failed request too.
C29_RowPerFetchedRun ==
    phase \in {"fetch", "done"} /\ error = "" /\ fetched # <<>> =>
        /\ [i \in DOMAIN enhanced_data |-> enhanced_data[i].activity_id]
               = OkIds(SubSeq(fetched, 1, run_index))
        /\ phase = "done" => run_index = Len(fetched)

\* three runs, the request of the second failed: rows for the first and the
\* third, written in that order
C29_Witness ==
    /\ phase = "done"
    /\ error = ""
    /\ [i \in DOMAIN fetched |-> fetched[i].status] = <<200, 404, 200>>
    /\ [i \in DOMAIN enhanced_data |-> enhanced_data[i].activity_id] = <<1, 4>>
    /\ [i \in DOMAIN running_csv.rows |-> running_csv.rows[i].activity_id]
           = <<1, 4>>

----------------------------------------------------------------------------
\* C27: analyze_your_runs never divides by zero: where the base training
\* percentage is about to be computed total_runs is above 0, and a run that
\* loaded a batch, an empty one included, ends without exception, returns the
\* classified batch and has written it to classified_running_data.csv.
C27_NeverDividesByZero ==
    /\ phase \in {"save", "insights"} => total_runs > 0
    /\ phase = "done" /\ running_csv.exists =>
           /\ error = ""
           /\ returned = "classified_df"
           /\ classified_csv.exists
           /\ classified_csv.run_type = frames[df].run_type

\* C28: classified_running_data.csv changes only in a step taken when
\* running_data.csv exists and every record of the loaded batch has its
\* label, and it then holds these labels; without running_data.csv the file
\* stays as it is and analyze_your_runs returns None.
C28_SaveAfterClassification ==
    [][/\ classified_csv' # classified_csv =>
              /\ running_csv.exists
              /\ Len(frames[df].run_type) = Len(running_csv.rows)
              /\ \A i \in DOMAIN frames[df].run_type :
                     frames[df].run_type[i] \in Labels
              /\ classified_csv'.run_type = frames[df].run_type
       /\ ~running_csv.exists =>
              /\ classified_csv' = classified_csv
              /\ phase' = "done" => returned' = "None"]_vars

\* a batch of two records classified and written over the file of an earlier
\* analysis
C28_Witness ==
    /\ phase = "done"
    /\ returned = "classified_df"
    /\ Len(running_csv.rows) = 2
    /\ classified_csv # StaleClassified
    /\ classified_csv.run_type = <<"Race", "Endurance">>
    /\ [i \in 1..2 |-> classified_csv.rows[i].activity_id]
           = [i \in 1..2 |-> running_csv.rows[i].activity_id]

----------------------------------------------------------------------------
\* C30: load_running_data of app.py raises on no combination of missing
\* files.  With classified_running_data.csv it returns that file's records
\* and labels; with running_data.csv only, that file's records, each labelled
\* General Aerobic; with neither, an empty batch that has a run_type column.
C30_LoaderFallbacks ==
    op = "app.load_running_data" =>
        /\ error = ""
        /\ loaded.exists
        /\ classified_csv.exists =>
               /\ loaded.rows = classified_csv.rows
               /\ loaded.run_type = classified_csv.run_type
        /\ ~classified_csv.exists /\ running_csv.exists =>
               /\ loaded.rows = running_csv.rows
               /\ loaded.run_type =
                      [i \in DOMAIN running_csv.rows |-> "General Aerobic"]
        /\ ~classified_csv.exists /\ ~running_csv.exists =>
               /\ loaded.rows = <<>>
               /\ "run_type" \in loaded.columns

\* neither file: the empty batch with its run_type column
C30_Witness ==
    /\ op = "app.load_running_data"
    /\ ~classified_csv.exists
    /\ ~running_csv.exists
    /\ error = ""
    /\ loaded.rows = <<>>
    /\ "run_type" \in loaded.columns

====
